---- MODULE Spec2Model ----
(***************************************************************************)
(* imagga-tagger (src/tag.py): a directory walk feeds image paths to a     *)
(* bounded-concurrency fetch stage gated by FrequencyLock, whose results   *)
(* are written to an sqlite store by Tagger.store.                         *)
(*                                                                         *)
(* The program runs on one asyncio event loop: a step of the model is what *)
(* one task does between two suspension points.  Tagger.store is           *)
(* synchronous; it is split into its statements only so that the process   *)
(* can be interrupted between them, and no other task moves meanwhile.     *)
(*                                                                         *)
(* Spec is the program run, killed and run again on the same directory and *)
(* database; FairSpec adds the scheduling of the event loop; StoreSpec is  *)
(* Tagger.store alone, on a database file that others write too.          *)
(***************************************************************************)
EXTENDS Integers, Sequences, FiniteSets

\* ------------------------------------------------------------------ bounds

NumFiles == 3       \* files met by os.walk under topdir

\* --------------------------------------------------------- option values

None == -1          \* a click option that was not given

TaskOptions == {None, 0, 1, 2}      \* -t/--tasks
LimitOptions == {None, 0, 1}        \* -l/--limit

Paths == 1..NumFiles

\* ------------------------------------------------------------ filesystem

\* str.lower() on the suffixes met here
Lower(s) ==
    CASE s = ".JPG" -> ".jpg"
      [] s = ".PNG" -> ".png"
      [] OTHER -> s

\* The kinds of file under topdir: suffix, and whether PIL can open it.
FileKinds ==
    { [suffix |-> ".jpg", decodable |-> TRUE],
      [suffix |-> ".PNG", decodable |-> FALSE],
      [suffix |-> ".txt", decodable |-> FALSE] }

\* src/tag.py:96
AllowedSuffix(f) == Lower(f.suffix) \in {".jpg", ".png"}

\* ---------------------------------------------------- response payloads

NoKey == "<missing>"

\* One element of result.tags: tag.en and confidence (in hundredths).
Beach == [en |-> "beach", confidence |-> 90]
Sand == [en |-> "sand", confidence |-> 70]
BadEntry == [en |-> NoKey, confidence |-> 50]

TagLists == { <<Beach, Sand>>, <<Sand, BadEntry>> }

\* What `await res.json()` can hand back, by the shape store looks at:
\*   norsl  : an object without "result"           {"status": ...}
\*   notags : "result" is an object without "tags" {"result": {}}
\*   null   : "result" is null                     {"result": null}
\*   tags   : "result"."tags" is a list
\* no payload
NoData == [shape |-> "none", tags |-> <<>>]

Payloads ==
    { [shape |-> "norsl", tags |-> <<>>],
      [shape |-> "null", tags |-> <<>>] }
    \cup { [shape |-> "tags", tags |-> l] : l \in TagLists }

\* ----------------------------------------------------------------- store

EmptyDb == [photos |-> <<>>, tags |-> <<>>, photo_tag |-> <<>>]

RECURSIVE MaxId(_)
MaxId(rows) ==
    IF rows = <<>> THEN 0
    ELSE LET m == MaxId(Tail(rows))
         IN IF Head(rows).id > m THEN Head(rows).id ELSE m

\* select 1 from photos where path = ?
PhotoRows(d, p) == { i \in 1..Len(d.photos) : d.photos[i].path = p }

\* select id from tags where tag_name = ?
TagRows(d, n) == { i \in 1..Len(d.tags) : d.tags[i].tag_name = n }

\* ------------------------------------------------------------------ state

VARIABLES
    files,      \* the walk of topdir: files[p] is the kind of path p, in os.walk order
    tasks,      \* Tagger.tasks
    limit,      \* Tagger.limit
    runPc,      \* Tagger.run: "init", "steady", "stopping", "done"; "crashed" = process killed
    error,      \* the exception Tagger.run ended with, "" for none
    session,    \* Tagger.session: "none", "open", "closed"
    tickPc,     \* FrequencyLock.run's task: "none", "created", "sleeping", "exited", "failed"
    locked,     \* FrequencyLock._lock.locked()
    waiters,    \* FrequencyLock._lock._waiters, oldest first
    shutdown,   \* FrequencyLock._shutdown
    task,       \* FrequencyLock._task is set
    pos,        \* files find_images has consumed
    imgBound,   \* find_images' local `img` is bound
    taken,      \* items pipe.take has passed on
    mainSt,     \* the task pulling the source: "none", "scheduled", "item", "ended", "raised", "idle"
    mainItem,   \* the path that task returned (0: none)
    subs,       \* one entry per image in the map stage, in source order
    storePc,    \* Tagger.store: "idle", "loop"
    photo_id,   \* store's photo_id
    tagIdx,     \* store's position in data['result']['tags']
    data,       \* store's data, while it writes
    db,         \* the tables as the connection sees them
    disk,       \* the tables as committed
    yielded,    \* history: paths find_images yielded in this run, in order
    calls,      \* history: paths whose remote call was initiated in this run, in order
    sinceTick,  \* history: remote calls initiated since the last tick (or the start)
    stored,     \* history: what store returned in this run, in order
    given,      \* history: given[p] = the tag list store began to write for path p
    log,        \* history: LOG records of this run
    killedAt,   \* history: store's tagIdx when the process was killed inside store, else 0
    arrived,    \* history: paths whose response has come and whose store has not returned, in order of arrival
    retry       \* history: paths store found without tags in the run before, not yet called for in this one

cfgVars == <<files, tasks, limit>>
gateVars == <<tickPc, locked, waiters, shutdown, task>>
discVars == <<pos, imgBound, taken>>
storeVars == <<storePc, photo_id, tagIdx, data>>
runHist == <<yielded, calls, sinceTick, stored, given, log, killedAt, retry>>
histVars == <<yielded, calls, sinceTick, stored, given, log, killedAt, arrived, retry>>

vars == <<files, tasks, limit, runPc, error, session, tickPc, locked, waiters,
          shutdown, task, pos, imgBound, taken, mainSt, mainItem, subs,
          storePc, photo_id, tagIdx, data, db, disk, yielded, calls, sinceTick, stored,
          given, log, killedAt, arrived, retry>>

NotGiven == <<[en |-> NoKey, confidence |-> 0]>>   \* given[p] before store has begun to write p

\* The state of everything Tagger.run creates, before run is called.
FreshRun ==
    /\ runPc = "init" /\ error = "" /\ session = "none"
    /\ tickPc = "none" /\ locked = FALSE /\ waiters = <<>>
    /\ shutdown = FALSE /\ task = FALSE
    /\ pos = 0 /\ imgBound = FALSE /\ taken = 0
    /\ mainSt = "none" /\ mainItem = 0 /\ subs = <<>>
    /\ storePc = "idle" /\ photo_id = 0 /\ tagIdx = 0 /\ data = NoData
    /\ yielded = <<>> /\ calls = <<>> /\ sinceTick = 0 /\ stored = <<>>
    /\ log = {} /\ killedAt = 0 /\ arrived = <<>>

Init ==
    /\ files \in [Paths -> FileKinds]
    /\ tasks \in TaskOptions
    /\ limit \in LimitOptions
    /\ db = EmptyDb /\ disk = EmptyDb
    /\ given = [p \in Paths |-> NotGiven]
    /\ retry = {}
    /\ FreshRun

\* ------------------------------------------------------------ event loop

\* An event loop that runs other tasks while store is at work.
LoopAlwaysFree == TRUE

\* Tagger.store is a plain function called from the pipeline's task: from its
\* call to its return the event loop runs no other task.
LoopFree == storePc = "idle"

\* -------------------------------------------------------------- discovery

\* A lookup that never finds the path.
NeverInDatabase(image) == FALSE

\* Tagger.image_is_in_database
image_is_in_database(image) == PhotoRows(db, image) # {}

\* Tagger.find_images, from the file after p up to its next yield, its end, or
\* the exception that leaves it.  bound: whether `img` is bound; msgs: the LOG
\* records written on the way.
RECURSIVE Scan(_, _, _)
Scan(p, bound, msgs) ==
    IF p = NumFiles
    THEN [kind |-> "ended", item |-> 0, pos |-> p, bound |-> bound, msgs |-> msgs]
    ELSE LET q == p + 1
             f == files[q]
         IN IF ~AllowedSuffix(f)
            THEN Scan(q, bound, msgs)
            ELSE IF image_is_in_database(q)
            THEN Scan(q, bound, msgs \cup {[level |-> "info", what |-> "skipping", path |-> q]})
            ELSE IF f.decodable
            THEN [kind |-> "item", item |-> q, pos |-> q, bound |-> TRUE, msgs |-> msgs]
            ELSE \* Image.open raised: the except clause logs, then `finally`
                 \* closes `img`, which is whatever an earlier probe left
                 LET m == msgs \cup {[level |-> "warning", what |-> "failed to open", path |-> q]}
                 IN IF bound
                    THEN Scan(q, bound, m)
                    ELSE [kind |-> "raised", item |-> 0, pos |-> q, bound |-> bound, msgs |-> m]

\* `if self.limit: pl = pl | pipe.take(self.limit)`
TakeApplies == limit # None /\ limit # 0

\* The task pulling the next item of the source (find_images, cut by take) runs.
Discover ==
    /\ runPc = "steady" /\ LoopFree
    /\ tickPc # "created"
    /\ mainSt = "scheduled"
    /\ IF TakeApplies /\ taken >= limit
       THEN /\ mainSt' = "ended"
            /\ UNCHANGED <<mainItem, pos, imgBound, taken, yielded, log>>
       ELSE LET r == Scan(pos, imgBound, {})
            IN /\ mainSt' = r.kind
               /\ mainItem' = r.item
               /\ pos' = r.pos
               /\ imgBound' = r.bound
               /\ log' = log \cup r.msgs
               /\ taken' = IF r.kind = "item" /\ TakeApplies THEN taken + 1 ELSE taken
               /\ yielded' = IF r.kind = "item" THEN Append(yielded, r.item) ELSE yielded
    /\ UNCHANGED <<cfgVars, runPc, error, session, gateVars, subs, storeVars,
                   db, disk, calls, sinceTick, stored, given, killedAt, arrived, retry>>

\* ------------------------------------------------------------ the rate gate

\* A gate that looks only at the queue, not at the lock.
AcquireIgnoresLock == waiters = <<>>

\* FrequencyLock.acquire: asyncio.Lock.acquire returns at once when the lock is
\* free and nobody is queued for it, and queues the caller otherwise.
AcquireNow == ~locked /\ waiters = <<>>

\* A ticker that releases at every tick.
ReleaseAlways == TRUE

\* FrequencyLock.run: `if self._lock.locked()`
ReleaseOnTick == locked

\* A ticker that does not look at the stop flag.
TickForever == TRUE

\* FrequencyLock.run: `while not self._shutdown`
KeepTicking == ~shutdown

\* A release that wakes nobody.
WakeNobody == subs

SetSt(i, st) == [subs EXCEPT ![i].st = st]

\* self._lock.release(): the lock is free again and the oldest waiter, if
\* there is one, is woken to take it.
WakeFirst ==
    IF waiters = <<>> THEN subs
    ELSE SetSt(CHOOSE i \in 1..Len(subs) : subs[i].image = Head(waiters), "woken")

\* FrequencyLock.run, first step of the task: record the task
\* (asyncio.Task.current_task() of Python 3.7 and 3.8), test the loop
\* condition, go to sleep.  The task was created before `await pl`, so it
\* takes this step before any task of the pipeline takes one; when run ended
\* without suspending, it takes it after run is over.
TickerStart ==
    /\ tickPc = "created"
    /\ runPc \in {"steady", "stopping", "done"}
    /\ task' = TRUE
    /\ tickPc' = IF KeepTicking THEN "sleeping" ELSE "exited"
    /\ UNCHANGED <<cfgVars, runPc, error, session, locked, waiters, shutdown,
                   discVars, mainSt, mainItem, subs, storeVars, db, disk, histVars>>

\* FrequencyLock.run, the sleep is over: release the lock if it is held (which
\* hands it to the oldest waiter), then test the loop condition.  Releasing a
\* lock that is not held raises RuntimeError, which ends the ticker's task.
Tick ==
    /\ tickPc = "sleeping"
    /\ runPc \in {"steady", "stopping"} /\ LoopFree
    /\ sinceTick' = 0
    /\ IF ReleaseOnTick
       THEN IF locked
            THEN /\ locked' = FALSE
                 /\ subs' = WakeFirst
                 /\ tickPc' = IF KeepTicking THEN "sleeping" ELSE "exited"
            ELSE /\ tickPc' = "failed"
                 /\ UNCHANGED <<locked, subs>>
       ELSE /\ tickPc' = IF KeepTicking THEN "sleeping" ELSE "exited"
            /\ UNCHANGED <<locked, subs>>
    /\ UNCHANGED <<cfgVars, runPc, error, session, waiters, shutdown, task,
                   discVars, mainSt, mainItem, storeVars, db, disk,
                   yielded, calls, stored, given, log, killedAt, arrived, retry>>

\* ---------------------------------------------------------------- fetching

\* Tagger.tag, from its start to its first suspension: at the gate, or, the
\* permit taken, in the remote call.
TagStart(i) ==
    /\ runPc = "steady" /\ LoopFree
    /\ subs[i].st = "new"
    /\ IF AcquireNow
       THEN /\ locked' = TRUE
            /\ subs' = SetSt(i, "posting")
            /\ calls' = Append(calls, subs[i].image)
            /\ sinceTick' = sinceTick + 1
            /\ retry' = retry \ {subs[i].image}
            /\ UNCHANGED waiters
       ELSE /\ waiters' = Append(waiters, subs[i].image)
            /\ subs' = SetSt(i, "waiting")
            /\ UNCHANGED <<locked, calls, sinceTick, retry>>
    /\ UNCHANGED <<cfgVars, runPc, error, session, tickPc, shutdown, task,
                   discVars, mainSt, mainItem, storeVars, db, disk,
                   yielded, stored, given, log, killedAt, arrived>>

\* Tagger.tag, woken at the gate: the lock is taken and the remote call begins.
TagResume(i) ==
    /\ runPc = "steady" /\ LoopFree
    /\ subs[i].st = "woken"
    /\ locked' = TRUE
    /\ waiters' = Tail(waiters)
    /\ subs' = SetSt(i, "posting")
    /\ calls' = Append(calls, subs[i].image)
    /\ sinceTick' = sinceTick + 1
    /\ retry' = retry \ {subs[i].image}
    /\ UNCHANGED <<cfgVars, runPc, error, session, tickPc, shutdown, task,
                   discVars, mainSt, mainItem, storeVars, db, disk,
                   yielded, stored, given, log, killedAt, arrived>>

\* Tagger.tag, the response has come and parsed: return (image, data).  What
\* data is shows when store unpacks the job, and is drawn there.
Respond(i) ==
    /\ runPc = "steady" /\ LoopFree
    /\ subs[i].st = "posting"
    /\ subs' = SetSt(i, "got")
    /\ arrived' = Append(arrived, subs[i].image)
    /\ UNCHANGED <<cfgVars, runPc, error, session, gateVars, discVars, mainSt,
                   mainItem, storeVars, db, disk, yielded, calls, sinceTick, stored,
                   given, log, killedAt, retry>>

\* Tagger.tag, session.post or res.json raised: the exception leaves tag.
RespondFail(i) ==
    /\ runPc = "steady" /\ LoopFree
    /\ subs[i].st = "posting"
    /\ subs' = SetSt(i, "failed")
    /\ UNCHANGED <<cfgVars, runPc, error, session, gateVars, discVars, mainSt,
                   mainItem, storeVars, db, disk, histVars>>

\* ------------------------------------------------------------ orchestration

\* pipe.map(self.tag, task_limit=self.tasks): the map stage refuses a limit
\* that is neither None nor positive when it is first iterated.
BadTaskLimit == tasks # None /\ tasks <= 0

\* A task limit that is off by one.
MayPullOneMore(n) == tasks = None \/ tasks >= n

\* pipe.map(self.tag, task_limit=self.tasks): after taking an item, the source
\* is pulled again only while the limit exceeds the n tasks the stage holds.
MayPull(n) == tasks = None \/ tasks > n

\* A stop that sets the flag and does not wait.
StopNeverWaits == FALSE

\* FrequencyLock.stop: `if self._task: await self._task`
StopWaits == task

\* `await pl` is over (err: the exception it raised, "" for none): the stage's
\* tasks are cancelled, and the finally clause calls limiter.stop(), which
\* sets _shutdown and waits for the ticker if it knows its task; otherwise
\* stop returns at once, the session is closed and run is over.
Finally(err) ==
    /\ error' = err
    /\ shutdown' = TRUE
    /\ subs' = <<>>
    /\ waiters' = <<>>
    /\ mainSt' = "none"
    /\ mainItem' = 0
    /\ arrived' = <<>>
    /\ IF StopWaits
       THEN /\ runPc' = "stopping"
            /\ session' = "open"
       ELSE /\ runPc' = "done"
            /\ session' = "closed"

\* wait_stream: awaiting a stream that produced no item raises StreamEmpty.
EndError == IF stored = <<>> THEN "StreamEmpty" ELSE ""

\* Tagger.run, to its first suspension in `await pl`, or to its end when the
\* map stage refuses the task limit: the exception leaves `await pl` before
\* the ticker's task, already created, has run.
RunStart ==
    /\ runPc = "init"
    /\ tickPc' = "created"
    /\ IF BadTaskLimit
       THEN /\ Finally("ValueError")
            /\ UNCHANGED <<locked, task>>
       ELSE /\ runPc' = "steady"
            /\ session' = "open"
            /\ mainSt' = "scheduled"
            /\ UNCHANGED <<error, locked, waiters, shutdown, task, mainItem, subs, arrived>>
    /\ UNCHANGED <<cfgVars, discVars, storeVars, db, disk, runHist>>

\* The task at the head of the map stage is done (the stage hands on results
\* in source order, so only the head is looked at).
HeadDone == subs # <<>> /\ subs[1].st \in {"got", "failed", "yielded"}

\* A stage that puts the newest task first.
EnqueueFirst(q, e) == <<e>> \o q

\* The map stage keeps its tasks in the order in which their items came from
\* the source, and hands on the results in that order.
Enqueue(q, e) == Append(q, e)

\* The map stage takes an item from the source: a task for tag(item) is
\* created, and the source is pulled again if the task limit allows.
HandleItem ==
    /\ runPc = "steady" /\ LoopFree
    /\ mainSt = "item" /\ ~HeadDone
    /\ subs' = Enqueue(subs, [image |-> mainItem, st |-> "new"])
    /\ mainSt' = IF MayPull(Len(subs) + 1) THEN "scheduled" ELSE "idle"
    /\ mainItem' = 0
    /\ UNCHANGED <<cfgVars, runPc, error, session, gateVars, discVars, storeVars,
                   db, disk, histVars>>

\* The source is exhausted; with no task left the pipeline is over.
HandleEnded ==
    /\ runPc = "steady" /\ LoopFree
    /\ mainSt = "ended" /\ ~HeadDone
    /\ IF subs = <<>>
       THEN /\ Finally(EndError)
            /\ UNCHANGED <<tickPc, locked, task>>
       ELSE /\ mainSt' = "none"
            /\ UNCHANGED <<runPc, error, session, gateVars, mainItem, subs, arrived>>
    /\ UNCHANGED <<cfgVars, discVars, storeVars, db, disk, runHist>>

\* find_images raised: the exception leaves `await pl`.
HandleRaised ==
    /\ runPc = "steady" /\ LoopFree
    /\ mainSt = "raised" /\ ~HeadDone
    /\ Finally("UnboundLocalError")
    /\ UNCHANGED <<cfgVars, tickPc, locked, task, discVars, storeVars, db, disk,
                   runHist>>

\* The head's tag() raised: the exception leaves `await pl`.
HandleFailed ==
    /\ runPc = "steady" /\ LoopFree
    /\ subs # <<>> /\ subs[1].st = "failed"
    /\ Finally("FetchError")
    /\ UNCHANGED <<cfgVars, tickPc, locked, task, discVars, storeVars, db, disk,
                   runHist>>

\* The head's stream is exhausted after its one result: it is dropped, and the
\* source is pulled again if it was held back; with no task left the pipeline
\* is over.
HandleDone ==
    /\ runPc = "steady" /\ LoopFree
    /\ subs # <<>> /\ subs[1].st = "yielded"
    /\ IF Len(subs) = 1 /\ mainSt = "none"
       THEN /\ Finally(EndError)
            /\ UNCHANGED <<tickPc, locked, task>>
       ELSE /\ subs' = Tail(subs)
            /\ mainSt' = IF mainSt = "idle" THEN "scheduled" ELSE mainSt
            /\ UNCHANGED <<runPc, error, session, gateVars, mainItem, arrived>>
    /\ UNCHANGED <<cfgVars, discVars, storeVars, db, disk, runHist>>

\* ------------------------------------------------------------ Tagger.store

\* data.get('result', {}) for the payload shapes: None for a null result.
\* `'tags' not in ...` raises TypeError on None.
CheckRaises(d) == d.shape = "null"

\* `'tags' not in data.get('result', {})`
LacksTags(d) == d.shape \in {"norsl", "notags"}

\* insert into photos (path) values (?): the row gets the next rowid.
InsertPhoto(d, path) ==
    [d EXCEPT !.photos = Append(@, [id |-> MaxId(d.photos) + 1, path |-> path])]

\* An insert into tags that ignores nothing.
InsertTagAgain(d, name) ==
    [d EXCEPT !.tags = Append(@, [id |-> MaxId(d.tags) + 1, tag_name |-> name])]

\* insert or ignore into tags (tag_name) values (?)
InsertTag(d, name) ==
    IF TagRows(d, name) # {} THEN d
    ELSE [d EXCEPT !.tags = Append(@, [id |-> MaxId(d.tags) + 1, tag_name |-> name])]

\* select id from tags where tag_name = ? ... fetchone()[0]
TagId(d, name) == d.tags[CHOOSE i \in TagRows(d, name) : \A j \in TagRows(d, name) : i <= j].id

\* insert into photo_tag (photo_id, tag_id, confidence) values (?, ?, ?)
InsertPhotoTag(d, pid, tid, conf) ==
    [d EXCEPT !.photo_tag = Append(@, [photo_id |-> pid, tag_id |-> tid, confidence |-> conf])]

\* One turn of store's loop on tables d for photo pid: the tag row if the name
\* is new, the id of the name's row, the photo_tag row.
TagStep(d, pid, tag) ==
    LET d1 == InsertTag(d, tag.en)
        tag_id == TagId(d1, tag.en)
    IN InsertPhotoTag(d1, pid, tag_id, tag.confidence)

\* A connection in autocommit mode: every insert is committed as it is made.
Autocommit(d, old) == d

\* sqlite3.connect(self.dbpath): with the module's default isolation level an
\* insert opens a transaction, and the committed tables (old) stay as they are
\* when the connection's tables become d.
AfterInsert(d, old) == old

\* A store that forgets to commit.
NotCommitted(d, old) == old

\* self.db.commit(): the connection's tables become the committed ones.
Committed(d, old) == d

\* store(job), from its call to the photo row: the no-tags return, the
\* exception of the test, or the insert that opens the transaction.  The job
\* is the result of the head of the map stage: its image, and the payload d
\* that tag() got from res.json(), which nothing has looked at before.
StoreBegin(d) ==
    /\ runPc = "steady" /\ LoopFree
    /\ subs # <<>> /\ subs[1].st = "got"
    /\ LET image == subs[1].image
       IN IF CheckRaises(d)
          THEN /\ Finally("TypeError")
               /\ UNCHANGED <<tickPc, locked, task, storeVars, db, disk, stored, given, log>>
          ELSE IF LacksTags(d)
          THEN /\ log' = log \cup {[level |-> "warning", what |-> "no tags", path |-> image]}
               /\ stored' = Append(stored, image)
               /\ subs' = SetSt(1, "yielded")
               /\ arrived' = SelectSeq(arrived, LAMBDA q : q # image)
               /\ UNCHANGED <<runPc, error, session, gateVars, mainSt, mainItem, storeVars,
                              db, disk, given>>
          ELSE IF PhotoRows(db, image) # {}
          THEN /\ Finally("IntegrityError")
               /\ UNCHANGED <<tickPc, locked, task, storeVars, db, disk, stored, given, log>>
          ELSE /\ db' = InsertPhoto(db, image)
               /\ disk' = AfterInsert(db', disk)
               /\ photo_id' = MaxId(db.photos) + 1
               /\ data' = d
               /\ tagIdx' = 1
               /\ storePc' = "loop"
               /\ given' = [given EXCEPT ![image] = d.tags]
               /\ UNCHANGED <<runPc, error, session, gateVars, mainSt, mainItem, subs,
                              stored, log, arrived>>
    /\ UNCHANGED <<cfgVars, discVars, yielded, calls, sinceTick, killedAt, retry>>

\* store, one turn of `for tag in data['result']['tags']`.
StoreTag ==
    /\ runPc = "steady" /\ storePc = "loop"
    /\ tagIdx <= Len(data.tags)
    /\ LET tag == data.tags[tagIdx]
       IN IF tag.en = NoKey
          THEN \* tag['tag']['en'] raises KeyError
               /\ Finally("KeyError")
               /\ storePc' = "idle"
               /\ data' = NoData
               /\ UNCHANGED <<tickPc, locked, task, photo_id, tagIdx, db, disk>>
          ELSE /\ db' = TagStep(db, photo_id, tag)
               /\ disk' = AfterInsert(db', disk)
               /\ tagIdx' = tagIdx + 1
               /\ UNCHANGED <<runPc, error, session, gateVars, mainSt, mainItem, subs,
                                 storePc, photo_id, data, arrived>>
    /\ UNCHANGED <<cfgVars, discVars, runHist>>

\* store, after the loop: commit and return the image.
StoreCommit ==
    /\ runPc = "steady" /\ storePc = "loop"
    /\ tagIdx > Len(data.tags)
    /\ disk' = Committed(db, disk)
    /\ stored' = Append(stored, subs[1].image)
    /\ subs' = SetSt(1, "yielded")
    /\ arrived' = SelectSeq(arrived, LAMBDA q : q # subs[1].image)
    /\ storePc' = "idle"
    /\ data' = NoData
    /\ UNCHANGED <<cfgVars, runPc, error, session, gateVars, discVars, mainSt,
                   mainItem, photo_id, tagIdx, db, yielded, calls, sinceTick, given, log,
                   killedAt, retry>>

\* ------------------------------------------------- shutdown, crash, rerun

\* Tagger.run, limiter.stop() has returned: close the session; run is over
\* and the process exits, which drops what the connection had not committed.
RunClose ==
    /\ runPc = "stopping"
    /\ tickPc = "exited"
    /\ session' = "closed"
    /\ runPc' = "done"
    /\ db' = disk
    /\ UNCHANGED <<cfgVars, error, gateVars, discVars, mainSt, mainItem, subs,
                   storeVars, disk, histVars>>

\* The values of a run's state before Tagger.run is called.
Reset(pc) ==
    /\ runPc' = pc /\ error' = "" /\ session' = "none"
    /\ tickPc' = "none" /\ locked' = FALSE /\ waiters' = <<>>
    /\ shutdown' = FALSE /\ task' = FALSE
    /\ pos' = 0 /\ imgBound' = FALSE /\ taken' = 0
    /\ mainSt' = "none" /\ mainItem' = 0 /\ subs' = <<>>
    /\ storePc' = "idle" /\ photo_id' = 0 /\ tagIdx' = 0 /\ data' = NoData
    /\ yielded' = <<>> /\ calls' = <<>> /\ sinceTick' = 0 /\ stored' = <<>>
    /\ log' = {} /\ arrived' = <<>>

\* The process is killed (at any point, also inside store): nothing of it is
\* left but the committed tables.
Crash ==
    /\ runPc \in {"steady", "stopping"}
    /\ Reset("crashed")
    /\ killedAt' = IF storePc = "loop" THEN tagIdx ELSE 0
    /\ retry' = {}
    /\ db' = disk
    /\ given' = [p \in Paths |-> IF PhotoRows(disk, p) # {} THEN given[p] ELSE NotGiven]
    /\ UNCHANGED <<cfgVars, disk>>

\* The program is started again on the same directory and database.
NewRun ==
    /\ runPc \in {"done", "crashed"}
    /\ Reset("init")
    /\ killedAt' = 0
    /\ retry' = { p \in Paths : [level |-> "warning", what |-> "no tags", path |-> p] \in log }
    /\ db' = disk
    /\ given' = [p \in Paths |-> IF PhotoRows(disk, p) # {} THEN given[p] ELSE NotGiven]
    /\ UNCHANGED <<cfgVars, disk>>

Next ==
    \/ RunStart
    \/ TickerStart
    \/ Tick
    \/ Discover
    \/ HandleItem
    \/ HandleEnded
    \/ HandleRaised
    \/ HandleFailed
    \/ HandleDone
    \/ \E i \in 1..Len(subs) : TagStart(i)
    \/ \E i \in 1..Len(subs) : TagResume(i)
    \/ \E i \in 1..Len(subs) : Respond(i)
    \/ \E i \in 1..Len(subs) : RespondFail(i)
    \/ \E d \in Payloads : StoreBegin(d)
    \/ StoreTag
    \/ StoreCommit
    \/ RunClose
    \/ Crash
    \/ NewRun

Spec == Init /\ [][Next]_vars

\* ----------------------------------------------- Tagger.store, on its own

\* The tables after whole stores of <<Beach, Sand>> for the paths of S among
\* 1..n, in path order.
RECURSIVE StoreTags(_, _, _)
StoreTags(d, pid, l) ==
    IF l = <<>> THEN d ELSE StoreTags(TagStep(d, pid, Head(l)), pid, Tail(l))

RECURSIVE Seeded(_, _)
Seeded(S, n) ==
    IF n = 0 THEN EmptyDb
    ELSE LET d == Seeded(S, n - 1)
         IN IF n \in S
            THEN StoreTags(InsertPhoto(d, n), MaxId(d.photos) + 1, <<Beach, Sand>>)
            ELSE d

\* store is about to be called with the result for image p, the only task of
\* the map stage.  The database file is shared: since find_images looked p
\* up, another writer of the file (a second instance of the program on the
\* same directory) may have committed rows, for p too; S is what the file
\* holds now.
StoreInit ==
    /\ files \in [Paths -> FileKinds]
    /\ tasks \in TaskOptions \ {0}
    /\ limit \in LimitOptions
    /\ \E S \in SUBSET Paths, p \in Paths :
          /\ AllowedSuffix(files[p]) /\ files[p].decodable
          /\ db = Seeded(S, NumFiles) /\ disk = db
          /\ given = [q \in Paths |-> IF q \in S THEN <<Beach, Sand>> ELSE NotGiven]
          /\ subs = <<[image |-> p, st |-> "got"]>>
          /\ pos = p
          /\ yielded = <<p>> /\ calls = <<p>> /\ arrived = <<p>>
    /\ runPc = "steady" /\ error = "" /\ session = "open"
    /\ tickPc = "sleeping" /\ locked = TRUE /\ waiters = <<>>
    /\ shutdown = FALSE /\ task = TRUE
    /\ imgBound = TRUE /\ taken = (IF TakeApplies THEN 1 ELSE 0)
    /\ mainSt = (IF MayPull(1) THEN "scheduled" ELSE "idle") /\ mainItem = 0
    /\ storePc = "idle" /\ photo_id = 0 /\ tagIdx = 0 /\ data = NoData
    /\ sinceTick = 1 /\ stored = <<>> /\ log = {} /\ killedAt = 0 /\ retry = {}

StoreNext ==
    \/ \E d \in Payloads : StoreBegin(d)
    \/ StoreTag
    \/ StoreCommit

StoreSpec == StoreInit /\ [][StoreNext]_vars

\* ---------------------------------------------------------- fair scheduling

\* The steps of the tasks of the pipeline: the source, the map stages, the
\* fetches up to their remote call, store.
Pipeline ==
    \/ Discover
    \/ HandleItem \/ HandleEnded \/ HandleRaised \/ HandleFailed \/ HandleDone
    \/ \E i \in 1..Len(subs) : TagStart(i) \/ TagResume(i)
    \/ \E d \in Payloads : StoreBegin(d)
    \/ StoreTag \/ StoreCommit

\* A remote call returns or fails.
Remote == \E i \in 1..Len(subs) : Respond(i) \/ RespondFail(i)

\* The event loop runs every task that is ready and ends every sleep (for
\* every interval, 0 too); every remote call returns or fails.  Nothing
\* is assumed of kills and of new runs.
Fairness ==
    /\ WF_vars(RunStart)
    /\ WF_vars(TickerStart)
    /\ WF_vars(Tick)
    /\ WF_vars(Pipeline)
    /\ WF_vars(Remote)
    /\ WF_vars(RunClose)

FairSpec == Spec /\ Fairness

\* ================================================================== claims

Range(q) == { q[k] : k \in 1..Len(q) }

\* Fetches that have started (tag() has run to the gate or beyond) and have
\* not returned their (image, data).
InFlight == Cardinality({ i \in 1..Len(subs) : subs[i].st \in {"waiting", "woken", "posting"} })

\* Fetches waiting for the remote response.
Awaiting == Cardinality({ i \in 1..Len(subs) : subs[i].st = "posting" })

\* The tag list linked to photo pid in tables d: (name, confidence), in row order.
TagName(d, tid) == d.tags[CHOOSE i \in 1..Len(d.tags) : d.tags[i].id = tid].tag_name
TagsOf(d, pid) ==
    LET rows == SelectSeq(d.photo_tag, LAMBDA r : r.photo_id = pid)
    IN [k \in 1..Len(rows) |->
          [en |-> TagName(d, rows[k].tag_id), confidence |-> rows[k].confidence]]

\* Paths whose photo row was committed before this run began.
Prior == { p \in Paths : PhotoRows(disk, p) # {} /\ p \notin Range(stored) }

FailedToOpen(p) == [level |-> "warning", what |-> "failed to open", path |-> p] \in log

\* C1 -- rate bound: whatever the number of workers and the interleaving, at
\* most one remote call is initiated between two consecutive ticks of the
\* ticker, and at most one before the first tick (so a window holding k ticks
\* holds at most k+1 initiations: one for each of its k+1 tick-free stretches).
RateBound == sinceTick <= 1

\* C1 witness: a second call has passed the gate after a tick while another
\* worker is still queued at it.
RateBoundWitness == Len(calls) >= 2 /\ sinceTick = 1 /\ waiters # <<>>

\* C2 -- concurrency bound: with tasks = N >= 1 the fetches started and not
\* yet returned (hence those awaiting a response) never exceed N.
ConcurrencyBound == tasks >= 1 => (InFlight <= tasks /\ Awaiting <= tasks)

\* C2 witness: tasks = 2, two responses awaited at once, the source held back.
ConcurrencyBoundWitness == tasks = 2 /\ Awaiting = 2 /\ mainSt = "idle"

\* C3 -- default concurrency: started without the tasks option (tasks is
\* None), at no instant is more than one fetch in flight.
DefaultConcurrency == tasks = None => InFlight <= 1

\* C4 -- atomic per-photo write: the committed tables never hold a photo with
\* only part of the tag list store was given for it, nor a photo_tag row
\* without its photo; and from the insert of a photo row to the commit
\* (between two tag inserts too) they hold neither the row nor any of its
\* photo_tag rows, so that a kill or an exception there leaves none.
AtomicWrite ==
    /\ \A i \in 1..Len(disk.photos) :
          TagsOf(disk, disk.photos[i].id) = given[disk.photos[i].path]
    /\ \A j \in 1..Len(disk.photo_tag) :
          \E i \in 1..Len(disk.photos) : disk.photos[i].id = disk.photo_tag[j].photo_id
    /\ storePc = "loop" =>
          /\ PhotoRows(disk, subs[1].image) = {}
          /\ \A j \in 1..Len(disk.photo_tag) : disk.photo_tag[j].photo_id # photo_id
    /\ runPc \in {"crashed", "done", "init"} => db = disk

\* C4 witness: the process was killed inside store between the first and the
\* second tag insert of a photo.
AtomicWriteWitness == runPc = "crashed" /\ killedAt = 2

\* C5 -- exactly-once storage: no path ever has two photo rows, and when a
\* run has arrived normally every image discovery yielded whose payload had
\* a tag list has exactly one committed photo row.
ExactlyOnce ==
    /\ \A p \in Paths : Cardinality(PhotoRows(db, p)) <= 1 /\ Cardinality(PhotoRows(disk, p)) <= 1
    /\ (runPc = "done" /\ error = "") =>
          \A k \in 1..Len(yielded) :
             given[yielded[k]] # NotGiven => Cardinality(PhotoRows(disk, yielded[k])) = 1

\* C5 witness: a run arrived normally with two photos committed and one
\* image that had no tags.
ExactlyOnceWitness ==
    /\ runPc = "done" /\ error = ""
    /\ Len(yielded) = 3
    /\ Cardinality({ p \in Range(yielded) : PhotoRows(disk, p) # {} }) = 2

\* C6 -- idempotent discovery: a path whose photo row was committed before
\* the run is not yielded by find_images in the run, and no remote call is
\* initiated for it.
IdempotentDiscovery ==
    \A p \in Prior : p \notin Range(yielded) /\ p \notin Range(calls)

\* C6 witness: a run skipped a path stored by an earlier run and went on to
\* call the service for another image.
IdempotentDiscoveryWitness ==
    \E p \in Prior :
       /\ [level |-> "info", what |-> "skipping", path |-> p] \in log
       /\ calls # <<>>

\* C7 -- no-tags outcome: when store gets a payload with no tag list at
\* result.tags it changes no table, commits nothing and returns the image.
NoTagsOutcome ==
    [][\A d \in { e \in Payloads : e.shape # "tags" } :
          StoreBegin(d) =>
             /\ db' = db /\ disk' = disk
             /\ stored' = Append(stored, subs[1].image)]_vars

\* C8 -- undecodable images are skipped, never fatal: wherever in the walk an
\* undecodable image comes, discovery logs it, does not yield it and raises
\* nothing.
UndecodableSkipped ==
    \A p \in Paths :
       FailedToOpen(p) =>
          /\ p \notin Range(yielded)
          /\ mainSt # "raised"
          /\ error # "UnboundLocalError"

FetchFailureConfined ==
    (runPc = "done" /\ error = "FetchError") =>
       /\ pos = NumFiles \/ (TakeApplies /\ taken >= limit)
       /\ Len(stored) >= Len(yielded) - 1

\* C11 -- a duplicate path is an idempotency signal: when store gets a result
\* with a tag list for a path that already has a photos row, the run is not
\* ended by the constraint violation, the table keeps exactly one row for the
\* path, and store returns the image so that the pipeline goes on.
DuplicateTolerated ==
    [][\A d \in { e \in Payloads : e.shape = "tags" } :
          (StoreBegin(d) /\ PhotoRows(db, subs[1].image) # {}) =>
             /\ runPc' = "steady" /\ error' = ""
             /\ Cardinality(PhotoRows(db', subs[1].image)) = 1
             /\ stored' = Append(stored, subs[1].image)]_vars

\* C12 -- item cap: with the limit option given as N >= 0, at most N images
\* pass from discovery to the fetch stage in a run, so at most N permits are
\* acquired, at most N remote calls initiated and at most N photos stored.
ItemCap ==
    limit # None =>
       /\ Len(yielded) <= limit
       /\ Len(calls) <= limit
       /\ Cardinality({ p \in Range(stored) : PhotoRows(db, p) # {} }) <= limit

\* C13 -- writer order is discovery order (the claim as amended): store is
\* invoked on the results in the order in which find_images yielded their
\* images, whatever the order in which the responses came.
WriterOrder ==
    /\ \A k \in 1..Len(stored) : k <= Len(yielded) /\ stored[k] = yielded[k]
    /\ storePc = "loop" => subs[1].image = yielded[Len(stored) + 1]

\* C13 witness: with tasks >= 2, store is at work on an image whose response
\* came second, while the image whose response came first waits.
WriterOrderWitness ==
    /\ tasks >= 2
    /\ storePc = "loop"
    /\ Len(arrived) = 2
    /\ subs[1].image = arrived[2]
    /\ subs[2].image = arrived[1] /\ subs[2].st = "got"

\* C13 as claimed -- writer order is fetch-completion order: with tasks >= 2
\* the result store is at work on is the one that came first among those
\* that have come and are not stored.
CompletionOrder ==
    (tasks >= 2 /\ storePc = "loop") => subs[1].image = Head(arrived)

\* C14 -- no-tags images are retried: an image store found without tags in
\* one run has no photos row after it; in the next run (the item cap apart)
\* discovery has yielded it again when it is over, and a remote call has
\* been made for it when the run completes.
Retried ==
    /\ \A p \in retry : PhotoRows(disk, p) = {}
    /\ ~TakeApplies =>
          /\ mainSt \in {"ended", "raised"} => retry \subseteq Range(yielded)
          /\ (runPc = "done" /\ error = "") => retry = {}

\* C15 -- ticker stop is awaited: whenever stop has returned (run goes on to
\* close the session, and is over), also when it was called before the
\* ticker's first step, the ticker's task has ended and takes no step.
StopAwaited ==
    runPc = "done" => (tickPc \in {"exited", "failed"} /\ ~ENABLED TickerStart /\ ~ENABLED Tick)

\* Fetches a release has handed the permit to and that have not resumed.
Woken == { i \in 1..Len(subs) : subs[i].st = "woken" }

\* C16 -- binary permit, no double release: the permit is free, or held, or
\* handed to exactly one waiter, never more; a free permit with fetches
\* queued is the one handed to the oldest of them; a tick leaves the permit
\* not held, and a tick that finds it free changes nothing of the gate and
\* raises nothing.
BinaryPermit ==
    /\ [](/\ Cardinality(Woken) + (IF locked THEN 1 ELSE 0) <= 1
          /\ (waiters # <<>> /\ ~locked) =>
                \E i \in Woken : subs[i].image = Head(waiters)
          /\ tickPc # "failed")
    /\ [][Tick => /\ locked' = FALSE
                  /\ ~locked => (UNCHANGED <<locked, waiters, subs>> /\ tickPc' # "failed")]_vars

\* C16 witness: a tick has released the held permit to the oldest of two
\* queued fetches, and the ticker sleeps towards a tick that will find the
\* permit not held.
BinaryPermitWitness ==
    ~locked /\ Cardinality(Woken) = 1 /\ Len(waiters) = 2 /\ tickPc = "sleeping"

\* C17 -- gate liveness: under fair scheduling, whatever the interval, a
\* fetch queued at FrequencyLock.acquire obtains the permit and makes its
\* call, unless the pipeline leaves its steady state first.
GateLive ==
    \A p \in Paths :
       (p \in Range(waiters)) ~> (p \in Range(calls) \/ runPc # "steady")

\* C17 witness: a fetch that was queued behind a call has been handed the
\* permit in steady state.
GateLiveWitness ==
    /\ runPc = "steady" /\ ~shutdown
    /\ calls # <<>>
    /\ \E i \in Woken : subs[i].image = Head(waiters) /\ subs[i].image \notin Range(calls)

\* C18 -- single serialized writer: from a store's first insert to its
\* return every step of the program is a step of that store (only a kill
\* can come between): no second store begins, no discovery lookup, fetch
\* worker or tick runs.
SerializedWriter ==
    [][storePc = "loop" => (StoreTag \/ StoreCommit \/ Crash)]_vars

\* C18 witness: store is between two tag inserts while the source's task, a
\* fetch that has not started and the ticker are all due.
SerializedWriterWitness ==
    /\ storePc = "loop" /\ tagIdx = 2
    /\ mainSt = "scheduled"
    /\ \E i \in 1..Len(subs) : subs[i].st = "new"
    /\ tickPc = "sleeping"

\* Tag deduplication and referential integrity of tables d.
Integrity(d) ==
    /\ \A i, j \in 1..Len(d.tags) :
          (d.tags[i].tag_name = d.tags[j].tag_name \/ d.tags[i].id = d.tags[j].id) => i = j
    /\ \A k \in 1..Len(d.photo_tag) :
          /\ \E i \in 1..Len(d.photos) : d.photos[i].id = d.photo_tag[k].photo_id
          /\ \E i \in 1..Len(d.tags) : d.tags[i].id = d.photo_tag[k].tag_id
    /\ \A k, l \in 1..Len(d.photo_tag) :
          TagName(d, d.photo_tag[k].tag_id) = TagName(d, d.photo_tag[l].tag_id)
             => d.photo_tag[k].tag_id = d.photo_tag[l].tag_id

\* C19 -- global tag deduplication and referential integrity: the tags table
\* has at most one row per name, every photo carrying a name is linked to
\* that one row, and every photo_tag row, committed or in the connection's
\* transaction, references an existing photo and an existing tag.
TagIntegrity == Integrity(disk) /\ Integrity(db)

\* C19 witness: two committed photos share the rows of their two tag names.
TagIntegrityWitness ==
    Len(disk.photos) = 2 /\ Len(disk.tags) = 2 /\ Len(disk.photo_tag) = 4

\* C20 -- run terminates: under fair scheduling, with remote calls that
\* return or fail, a run in steady state comes to its end (a kill apart)
\* with the ticker exited, the session closed and no fetch left at the
\* gate; the ticker exits at its first tick after stop was signalled; and a
\* run that ended without exception has passed every yielded image to store.
RunTerminates ==
    /\ (runPc = "steady") ~>
          \/ runPc = "crashed"
          \/ /\ runPc = "done" /\ session = "closed" /\ tickPc = "exited"
             /\ waiters = <<>> /\ subs = <<>>
    /\ [][(runPc = "stopping" /\ Tick) => tickPc' = "exited"]_vars
    /\ []((runPc = "done" /\ error = "") => stored = yielded)

\* C20 witness: a run of three fetches has ended without exception, ticker
\* exited, session closed.
RunTerminatesWitness ==
    /\ runPc = "done" /\ error = "" /\ session = "closed" /\ tickPc = "exited"
    /\ Len(calls) = 3 /\ stored = yielded /\ waiters = <<>>

====
